---- MODULE Spec2Model ----
(***************************************************************************)
(* Network topology analysis of MnMS' validation and dashboard scripts:    *)
(* script/validation/validate_network.py and                               *)
(* script/visualize/visualize_dashboard.py.                                *)
(*                                                                         *)
(* A network description holds ROADS.NODES and ROADS.SECTIONS, two         *)
(* insertion-ordered dictionaries.  They are modelled as sequences in      *)
(* document order: NODES is the sequence of node ids, SECTIONS the         *)
(* sequence of section records.  A pandas Index (a duplicate-free array of *)
(* labels, here always a sub-array of the sorted label array all_nodes) is *)
(* modelled as the set of its labels; a DataFrame as a record of its index *)
(* set and its cell function.                                              *)
(***************************************************************************)
EXTENDS Naturals, Integers, Sequences, FiniteSets, TLC

\* ------------------------------------------------------------------ bounds
NumNodes == 3
MaxSections == 3
\* The most nodes a chain has.
MaxChain == 4
\* The most sections of a network description handed to the whole script.
MaxMainSections == 2

NodeNames == <<"A", "B", "C", "D", "E", "F">>
SectionNames ==
    <<"s1", "s2", "s3", "s4", "s5", "s6", "s7", "s8", "s9", "s10", "s11", "s12",
      "s13", "s14", "s15", "s16", "s17", "s18", "s19", "s20", "s21", "s22",
      "s23", "s24", "s25">>

NodeIds == {NodeNames[i] : i \in 1..NumNodes}

\* Position of a node id in the lexicographic order of the ids.
Rank(n) == CHOOSE i \in 1..Len(NodeNames) : NodeNames[i] = n

Range(s) == {s[i] : i \in 1..Len(s)}

\* All duplicate-free sequences over the set S (the key orders of a dict).
RECURSIVE Orderings(_)
Orderings(S) ==
    IF S = {} THEN {<<>>}
    ELSE UNION {{<<x>> \o t : t \in Orderings(S \ {x})} : x \in S}

\* The ids in ascending (lexicographic) order.
Ascending == [i \in 1..NumNodes |-> NodeNames[i]]

\* The SECTIONS dictionary: records in document order, keyed by their id.
MkSections(f) ==
    [i \in 1..Len(f) |->
        [id |-> SectionNames[i], upstream |-> f[i][1], downstream |-> f[i][2]]]

SectionInputs ==
    {MkSections(f) : f \in UNION {[1..n -> NodeIds \X NodeIds] : n \in 0..MaxSections}}

NodeInputs == UNION {Orderings(S) : S \in SUBSET NodeIds}

VARIABLES
    NODES,          \* roads["NODES"]: node ids in document order
    SECTIONS,       \* roads["SECTIONS"]: section records in document order
    pc,             \* position in the flow
    df_adj,         \* build_adjacency_matrix's result
    df_adj_de,      \* identify_deadends' working copy
    ls_deadEnds,    \* identify_deadends' candidate Index
    df_adj_sp,      \* identify_springs' working copy
    s_springs,      \* identify_springs' boolean Series (its True labels)
    ls_springs,     \* identify_springs' candidate Index
    deadends,       \* analyze_roads: identify_deadends' return value
    springs,        \* analyze_roads: identify_springs' return value
    isolates,       \* analyze_roads: the isolates list
    seen_pairs,     \* identify_duplicate_sections' return value
    ds,             \* analyze_roads: the duplicate groups printed
    centralities,   \* compute_centralities' return value
    max_centrality, \* the maximum-centrality report
    executions,     \* how often each pruning loop's body has been executed
    main,           \* __main__: the names analyze_roads' result is bound to
    network,        \* module-level network: its ["ROADS"]["SECTIONS"]
    roads,          \* module-level roads: its ["SECTIONS"]
    final_sections, \* analyze_roads: identify_final_sections' return value
    categories      \* plot_nodes: the ids of each category

vars == <<NODES, SECTIONS, pc, df_adj, df_adj_de, ls_deadEnds, df_adj_sp,
          s_springs, ls_springs, deadends, springs, isolates, seen_pairs, ds,
          centralities, max_centrality, executions, main, network, roads,
          final_sections, categories>>

\* --------------------------------------------------------------- DataFrame
\* A cell that was never assigned (pandas' NaN), encoded as a value that is
\* neither 0 nor 1.
NaN == 0 - 1

\* The value of max_centrality before any report.
NoReport == [node |-> "None", value |-> 0]

\* No loop body executed yet.
NoExecutions == [deadends |-> 0, springs |-> 0]

\* __main__ before analyze_roads has returned.
\* No figure of the nodes yet.
NoCategories == [Isolates |-> {}, Springs |-> {}, Deadends |-> {}, Standard |-> {}]

NoResults == [springs |-> {}, deadends |-> {}, isolates |-> {}]

EmptyFrame == [index |-> {}, val |-> [p \in {} |-> 0]]

\* pd.DataFrame(index=all_nodes, columns=all_nodes)
NewFrame(all_nodes) ==
    [index |-> all_nodes, val |-> [p \in all_nodes \X all_nodes |-> NaN]]

\* df.loc[r, c] = x
SetCell(df, r, c, x) == [df EXCEPT !.val[<<r, c>>] = x]

\* fillna without inplace=True: the frame keeps its unassigned cells.
FillNa_NotInPlace(df) == df

\* df.fillna(0, inplace=True)
FillNa(df) ==
    [df EXCEPT !.val = [p \in DOMAIN df.val |-> IF df.val[p] = NaN THEN 0 ELSE df.val[p]]]

\* The assignment written as a comparison, df.loc[:, labels] == 0: nothing is
\* zeroed.
ZeroColumns_Nothing(df, labels) == df

\* The columns set to 1 instead of 0.
ZeroColumns_One(df, labels) ==
    [df EXCEPT !.val = [p \in DOMAIN df.val |-> IF p[2] \in labels THEN 1 ELSE df.val[p]]]

\* df.loc[:, labels] = 0
ZeroColumns(df, labels) ==
    [df EXCEPT !.val = [p \in DOMAIN df.val |-> IF p[2] \in labels THEN 0 ELSE df.val[p]]]

\* The rows' assignment written as the columns' one: df.loc[:, mask] = 0.
ZeroRows_AsColumns(df, labels) ==
    [df EXCEPT !.val = [p \in DOMAIN df.val |-> IF p[2] \in labels THEN 0 ELSE df.val[p]]]

\* df.loc[mask, :] = 0
ZeroRows(df, labels) ==
    [df EXCEPT !.val = [p \in DOMAIN df.val |-> IF p[1] \in labels THEN 0 ELSE df.val[p]]]

\* The zero-row test with the diagonal entry left out: a self-loop no longer
\* counts as an outgoing edge.
AllZeroRows_OffDiagonal(df) ==
    {n \in df.index : \A v \in df.index \ {n} : df.val[<<n, v>>] = 0}

\* s = (df == 0).all(axis=1); s[s].index
AllZeroRows(df) == {n \in df.index : \A v \in df.index : df.val[<<n, v>>] = 0}

\* The zero-column test with the diagonal entry left out: a self-loop no
\* longer counts as an incoming edge.
AllZeroCols_OffDiagonal(df) ==
    {n \in df.index : \A u \in df.index \ {n} : df.val[<<u, n>>] = 0}

\* s = (df == 0).all(axis=0); s[s].index
AllZeroCols(df) == {n \in df.index : \A u \in df.index : df.val[<<u, n>>] = 0}

\* -------------------------------------------------- build_adjacency_matrix
\* The index taken over every node id instead of the sections' endpoints.
all_nodes_EveryNode(sections) == NodeIds

\* np.union1d(df_links.upstream.unique(), df_links.downstream.unique())
all_nodes(sections) ==
    {sections[i].upstream : i \in 1..Len(sections)}
        \cup {sections[i].downstream : i \in 1..Len(sections)}

\* for _, row in df_links.iterrows(): df_adj.loc[row.upstream, row.downstream] = 1
RECURSIVE MarkSections(_, _, _)
MarkSections(df, sections, i) ==
    IF i > Len(sections) THEN df
    ELSE MarkSections(SetCell(df, sections[i].upstream, sections[i].downstream, 1),
                      sections, i + 1)

build_adjacency_matrix(sections) ==
    FillNa(MarkSections(NewFrame(all_nodes(sections)), sections, 1))

\* ------------------------------------------------------------------- Init
\* analyze_roads at the construction of the adjacency matrix, for every
\* section collection within the bounds; every node id is declared, in
\* ascending order.  The statistics analyze_roads prints before that point
\* are not part of the model.
Init ==
    /\ NODES = Ascending
    /\ SECTIONS \in SectionInputs
    /\ pc = "build_adjacency_matrix"
    /\ df_adj = EmptyFrame
    /\ df_adj_de = EmptyFrame
    /\ ls_deadEnds = {}
    /\ df_adj_sp = EmptyFrame
    /\ s_springs = {}
    /\ ls_springs = {}
    /\ deadends = {}
    /\ springs = {}
    /\ isolates = {}
    /\ seen_pairs = <<>>
    /\ ds = <<>>
    /\ centralities = <<>>
    /\ max_centrality = NoReport
    /\ executions = NoExecutions
    /\ main = NoResults
    /\ network = SECTIONS
    /\ roads = SECTIONS
    /\ final_sections = <<>>
    /\ categories = NoCategories

\* df_adj = build_adjacency_matrix(network).  With no section at all the
\* DataFrame of sections has no column "upstream" and the attribute access
\* raises.
BuildAdjacencyMatrix ==
    /\ pc = "build_adjacency_matrix"
    /\ IF network = <<>>
       THEN /\ pc' = "raised"
            /\ UNCHANGED df_adj
       ELSE /\ df_adj' = build_adjacency_matrix(network)
            /\ pc' = "identify_deadends"
    /\ UNCHANGED <<categories, network, roads, final_sections, main, executions, NODES, SECTIONS, df_adj_de, ls_deadEnds, df_adj_sp, s_springs,
                   ls_springs, deadends, springs, isolates, seen_pairs, ds,
                   centralities, max_centrality>>

\* ------------------------------------------------------- identify_deadends
\* The loop entered with an empty candidate Index.
FirstDeadEnds_Empty(df) == {}

\* The candidates before the loop: the nodes with no outgoing edge.
FirstDeadEnds(df) == AllZeroRows(df)

\* df_adj_de = df_adj.copy(); the nodes with no outgoing edge.
IdentifyDeadends ==
    /\ pc = "identify_deadends"
    /\ df_adj_de' = df_adj
    /\ ls_deadEnds' = FirstDeadEnds(df_adj)
    /\ pc' = "deadends_loop"
    /\ executions' = [executions EXCEPT !.deadends = 0]
    /\ UNCHANGED <<categories, network, roads, final_sections, main, NODES, SECTIONS, df_adj, df_adj_sp, s_springs, ls_springs,
                   deadends, springs, isolates, seen_pairs, ds, centralities,
                   max_centrality>>

\* One execution of the body of "while True": the columns of the candidates
\* are zeroed and the all-zero rows recomputed; when they equal the
\* candidates the loop breaks and the function returns them.
DeadendsLoop ==
    /\ pc = "deadends_loop"
    /\ LET df == ZeroColumns(df_adj_de, ls_deadEnds)
           new_deadEnds == AllZeroRows(df)
       IN /\ df_adj_de' = df
          /\ ls_deadEnds' = new_deadEnds
          /\ IF new_deadEnds = ls_deadEnds
             THEN /\ deadends' = new_deadEnds
                  /\ pc' = "identify_springs"
             ELSE /\ UNCHANGED deadends
                  /\ pc' = "deadends_loop"
    /\ executions' = [executions EXCEPT !.deadends = @ + 1]
    /\ UNCHANGED <<categories, network, roads, final_sections, main, NODES, SECTIONS, df_adj, df_adj_sp, s_springs, ls_springs,
                   springs, isolates, seen_pairs, ds, centralities, max_centrality>>

\* -------------------------------------------------------- identify_springs
\* The candidates before the loop: the nodes with no incoming edge.
FirstSprings(df) == AllZeroCols(df)

\* df_adj_sp = df_adj.copy(); the nodes with no incoming edge.
IdentifySprings ==
    /\ pc = "identify_springs"
    /\ df_adj_sp' = df_adj
    /\ s_springs' = FirstSprings(df_adj)
    /\ ls_springs' = FirstSprings(df_adj)
    /\ pc' = "springs_loop"
    /\ executions' = [executions EXCEPT !.springs = 0]
    /\ UNCHANGED <<categories, network, roads, final_sections, main, NODES, SECTIONS, df_adj, df_adj_de, ls_deadEnds, deadends,
                   springs, isolates, seen_pairs, ds, centralities, max_centrality>>

\* One execution of the body of "while True": the rows selected by the
\* boolean Series s_springs are zeroed and the all-zero columns recomputed.
SpringsLoop ==
    /\ pc = "springs_loop"
    /\ LET df == ZeroRows(df_adj_sp, s_springs)
           new_springs == AllZeroCols(df)
       IN /\ df_adj_sp' = df
          /\ s_springs' = new_springs
          /\ ls_springs' = new_springs
          /\ IF new_springs = ls_springs
             THEN /\ springs' = new_springs
                  /\ pc' = "isolates"
             ELSE /\ UNCHANGED springs
                  /\ pc' = "springs_loop"
    /\ executions' = [executions EXCEPT !.springs = @ + 1]
    /\ UNCHANGED <<categories, network, roads, final_sections, main, NODES, SECTIONS, df_adj, df_adj_de, ls_deadEnds, deadends,
                   isolates, seen_pairs, ds, centralities, max_centrality>>

\* ----------------------------------------------------------------- isolates
\* The comprehension without its condition.
IsolatesOf_Unfiltered(de, sp) == {value \in de : TRUE}

\* [value for value in deadends if value in springs]
IsolatesOf(de, sp) == {value \in de : value \in sp}

Isolates ==
    /\ pc = "isolates"
    /\ isolates' = IsolatesOf(deadends, springs)
    /\ pc' = "identify_final_sections"
    /\ UNCHANGED <<categories, network, roads, final_sections, main, executions, NODES, SECTIONS, df_adj, df_adj_de, ls_deadEnds, df_adj_sp,
                   s_springs, ls_springs, deadends, springs, seen_pairs, ds,
                   centralities, max_centrality>>

\* -------------------------------------------------- identify_final_sections
\* list(deadends): the labels of the Index in its order, the ascending order
\* of the ids.
RECURSIVE IndexList(_)
IndexList(S) ==
    IF S = {} THEN <<>>
    ELSE LET n == CHOOSE x \in S : \A y \in S : Rank(x) <= Rank(y)
         IN <<n>> \o IndexList(S \ {n})

\* The inner loop with the section's upstream node compared.
RECURSIVE FinalSectionsOf_Upstream(_, _, _, _)
FinalSectionsOf_Upstream(final, deadend, sections, j) ==
    IF j > Len(sections) THEN final
    ELSE FinalSectionsOf_Upstream(
             IF deadend = sections[j].upstream THEN Append(final, sections[j].id) ELSE final,
             deadend, sections, j + 1)

\* for id, section in sections.items(): if deadend == downnode: append
RECURSIVE FinalSectionsOf(_, _, _, _)
FinalSectionsOf(final, deadend, sections, j) ==
    IF j > Len(sections) THEN final
    ELSE FinalSectionsOf(
             IF deadend = sections[j].downstream THEN Append(final, sections[j].id) ELSE final,
             deadend, sections, j + 1)

\* for deadend in deadends
RECURSIVE FinalSectionsLoop(_, _, _, _)
FinalSectionsLoop(final, ls, sections, i) ==
    IF i > Len(ls) THEN final
    ELSE FinalSectionsLoop(FinalSectionsOf(final, ls[i], sections, 1), ls, sections, i + 1)

\* identify_final_sections(deadends); sections is the module-level roads'
\* SECTIONS.
identify_final_sections(ls, sections) == FinalSectionsLoop(<<>>, ls, sections, 1)

\* final_sections = identify_final_sections(list(deadends))
IdentifyFinalSections ==
    /\ pc = "identify_final_sections"
    /\ final_sections' = identify_final_sections(IndexList(deadends), roads)
    /\ pc' = "identify_duplicate_sections"
    /\ UNCHANGED <<categories, network, roads, main, executions, NODES, SECTIONS, df_adj, df_adj_de,
                   ls_deadEnds, df_adj_sp, s_springs, ls_springs, deadends, springs,
                   isolates, seen_pairs, ds, centralities, max_centrality>>

\* ---------------------------------------------- identify_duplicate_sections
\* A dict is a sequence of entries [key, value] in insertion order.
HasKey(d, k) == \E i \in 1..Len(d) : d[i].key = k

KeyIndex(d, k) == CHOOSE i \in 1..Len(d) : d[i].key = k

\* d.get(k, default)
Get(d, k, default) == IF HasKey(d, k) THEN d[KeyIndex(d, k)].value ELSE default

\* d[k] = v: a new key goes to the end, an old key keeps its place.
Put(d, k, v) ==
    IF HasKey(d, k)
    THEN [d EXCEPT ![KeyIndex(d, k)].value = v]
    ELSE Append(d, [key |-> k, value |-> v])

\* The pair taken without its direction: (B, A) falls into the group of (A, B).
AddToGroup_Unordered(seen, pair, id_section) ==
    LET p == IF Rank(pair[1]) <= Rank(pair[2]) THEN pair ELSE <<pair[2], pair[1]>>
    IN Put(seen, p, Append(Get(seen, p, <<>>), id_section))

\* The id inserted at the front of its group: seen_pairs[pair].insert(0, id).
AddToGroup_Front(seen, pair, id_section) ==
    Put(seen, pair, <<id_section>> \o Get(seen, pair, <<>>))

\* seen_pairs[pair].append(id_section), after "seen_pairs[pair] = []" for a
\* pair not seen before.
AddToGroup(seen, pair, id_section) ==
    Put(seen, pair, Append(Get(seen, pair, <<>>), id_section))

\* The loop over sections.items().  The list "duplicates" the loop also fills
\* is dropped at the return and is not modelled.
RECURSIVE GroupSections(_, _, _)
GroupSections(seen, sections, i) ==
    IF i > Len(sections) THEN seen
    ELSE GroupSections(
            AddToGroup(seen, <<sections[i].upstream, sections[i].downstream>>,
                       sections[i].id),
            sections, i + 1)

identify_duplicate_sections(sections) == GroupSections(<<>>, sections, 1)

IdentifyDuplicateSections ==
    /\ pc = "identify_duplicate_sections"
    /\ seen_pairs' = identify_duplicate_sections(SECTIONS)
    /\ pc' = "duplicate_report"
    /\ UNCHANGED <<categories, network, roads, final_sections, main, executions, NODES, SECTIONS, df_adj, df_adj_de, ls_deadEnds, df_adj_sp,
                   s_springs, ls_springs, deadends, springs, isolates, ds,
                   centralities, max_centrality>>

\* len(v) >= 1
IsDuplicateGroup_AtLeastOne(v) == Len(v) >= 1

\* len(v) > 1
IsDuplicateGroup(v) == Len(v) > 1

\* ds = [(k, v) for k, v in duplicate_sections.items() if len(v) > 1]
DuplicateGroups(duplicate_sections) ==
    SelectSeq(duplicate_sections, LAMBDA e : IsDuplicateGroup(e.value))

DuplicateReport ==
    /\ pc = "duplicate_report"
    /\ ds' = DuplicateGroups(seen_pairs)
    /\ pc' = "done"
    /\ UNCHANGED <<categories, network, roads, final_sections, main, executions, NODES, SECTIONS, df_adj, df_adj_de, ls_deadEnds, df_adj_sp,
                   s_springs, ls_springs, deadends, springs, isolates, seen_pairs,
                   centralities, max_centrality>>

\* analyze_roads, from the construction of the adjacency matrix on.
Next ==
    \/ BuildAdjacencyMatrix
    \/ IdentifyDeadends
    \/ DeadendsLoop
    \/ IdentifySprings
    \/ SpringsLoop
    \/ Isolates
    \/ IdentifyFinalSections
    \/ IdentifyDuplicateSections
    \/ DuplicateReport

Spec == Init /\ [][Next]_vars

\* ------------------------------------------------- the graph of the sections
\* The directed graph the section collection describes, taken from SECTIONS
\* itself and not from the matrix.
Edges == {<<SECTIONS[i].upstream, SECTIONS[i].downstream>> : i \in 1..Len(SECTIONS)}

Endpoints ==
    {n \in NodeIds : \E i \in 1..Len(SECTIONS) :
        SECTIONS[i].upstream = n \/ SECTIONS[i].downstream = n}

Successors(S) ==
    {SECTIONS[i].downstream : i \in {j \in 1..Len(SECTIONS) : SECTIONS[j].upstream \in S}}

Predecessors(S) ==
    {SECTIONS[i].upstream : i \in {j \in 1..Len(SECTIONS) : SECTIONS[j].downstream \in S}}

\* The nodes reached from S by following k or fewer sections forward.
RECURSIVE Forward(_, _)
Forward(S, k) ==
    IF k = 0 THEN S
    ELSE LET T == S \cup Successors(S)
         IN IF T = S THEN S ELSE Forward(T, k - 1)

\* The nodes from which S is reached by following k or fewer sections.
RECURSIVE Backward(_, _)
Backward(S, k) ==
    IF k = 0 THEN S
    ELSE LET T == S \cup Predecessors(S)
         IN IF T = S THEN S ELSE Backward(T, k - 1)

\* n lies on a directed cycle (a self-loop is one).
OnCycle(n) == n \in Forward(Successors({n}), NumNodes)

ReachesCycle(n) == \E c \in Forward({n}, NumNodes) : OnCycle(c)

ReachedFromCycle(n) == \E c \in Backward({n}, NumNodes) : OnCycle(c)

\* The end nodes of the forward (backward) walks of exactly k sections from n.
RECURSIVE WalkEnds(_, _)
WalkEnds(S, k) == IF k = 0 \/ S = {} THEN S ELSE WalkEnds(Successors(S), k - 1)

RECURSIVE WalkStarts(_, _)
WalkStarts(S, k) == IF k = 0 \/ S = {} THEN S ELSE WalkStarts(Predecessors(S), k - 1)

\* Every forward walk from n runs out of outgoing sections: none has as many
\* sections as there are nodes.
ForwardPathsRunOut(n) == WalkEnds({n}, NumNodes) = {}

BackwardPathsRunOut(n) == WalkStarts({n}, NumNodes) = {}

AfterBuild ==
    {"identify_deadends", "deadends_loop", "identify_springs", "springs_loop",
     "isolates", "identify_final_sections", "identify_duplicate_sections",
     "duplicate_report", "done"}

AfterDeadends ==
    {"identify_springs", "springs_loop", "isolates", "identify_final_sections",
     "identify_duplicate_sections", "duplicate_report", "done"}

AfterSprings ==
    {"isolates", "identify_final_sections", "identify_duplicate_sections",
     "duplicate_report", "done"}

AfterIsolates ==
    {"identify_final_sections", "identify_duplicate_sections", "duplicate_report", "done"}

\* C1: the set identify_deadends returns is exactly the set of index nodes
\* from which no directed cycle (a self-loop included) can be reached going
\* forward, which is the set of index nodes all of whose forward walks run
\* out of outgoing sections.
C1_DeadendsExact ==
    pc \in AfterDeadends =>
        /\ deadends = {n \in df_adj.index : ~ReachesCycle(n)}
        /\ deadends = {n \in df_adj.index : ForwardPathsRunOut(n)}

\* A self-loop keeps its node and the node leading to it, while a chain of
\* two other nodes is pruned in two rounds.
C1_Witness ==
    /\ pc = "identify_springs"
    /\ deadends # {}
    /\ deadends # df_adj.index
    /\ \E n \in deadends : n \notin AllZeroRows(df_adj)
    /\ \E n \in df_adj.index : <<n, n>> \in Edges /\ n \notin deadends

\* C2: the set identify_springs returns is exactly the set of index nodes
\* that no directed cycle reaches, the nodes all of whose backward walks run
\* out of incoming sections; it is a fixed point of "all-zero columns after
\* zeroing the rows of the set".
C2_SpringsExact ==
    pc \in AfterSprings =>
        /\ springs = {n \in df_adj.index : ~ReachedFromCycle(n)}
        /\ springs = {n \in df_adj.index : BackwardPathsRunOut(n)}
        /\ springs = AllZeroCols(ZeroRows(df_adj, springs))

C2_Witness ==
    /\ pc = "isolates"
    /\ springs # {}
    /\ springs # df_adj.index
    /\ \E n \in springs : n \notin AllZeroCols(df_adj)
    /\ \E n \in df_adj.index : <<n, n>> \in Edges /\ n \notin springs

\* C3: the isolates are exactly the nodes that are both in the final
\* dead-end set and in the final spring set, and the three sets hold only
\* nodes of the matrix' index.
C3_IsolatesIntersection ==
    pc \in AfterIsolates =>
        /\ isolates = deadends \cap springs
        /\ deadends \subseteq df_adj.index
        /\ springs \subseteq df_adj.index
        /\ isolates \subseteq df_adj.index

\* An isolate next to a dead-end that is no spring.
C3_Witness ==
    /\ pc = "identify_final_sections"
    /\ isolates # {}
    /\ deadends \ springs # {}
    /\ deadends # df_adj.index

\* The section collection without the sections that repeat the endpoint pair
\* of an earlier section.
FirstOfPair(i) ==
    \A j \in 1..(i - 1) :
        <<SECTIONS[j].upstream, SECTIONS[j].downstream>>
            # <<SECTIONS[i].upstream, SECTIONS[i].downstream>>

RECURSIVE WithoutParallels(_)
WithoutParallels(i) ==
    IF i > Len(SECTIONS) THEN <<>>
    ELSE (IF FirstOfPair(i) THEN <<SECTIONS[i]>> ELSE <<>>) \o WithoutParallels(i + 1)

\* C9: an entry of the built matrix is 1 when some section goes from its row
\* node to its column node and 0 when none does; parallel sections give the
\* entry one section gives.
C9_AdjacencyEntries ==
    pc \in AfterBuild =>
        /\ \A u \in df_adj.index : \A v \in df_adj.index :
              df_adj.val[<<u, v>>] = (IF <<u, v>> \in Edges THEN 1 ELSE 0)
        /\ DOMAIN df_adj.val = df_adj.index \X df_adj.index
        /\ df_adj = build_adjacency_matrix(WithoutParallels(1))

\* Two sections share an endpoint pair and another pair has no section.
C9_Witness ==
    /\ pc = "identify_deadends"
    /\ \E i \in 1..Len(SECTIONS) : ~FirstOfPair(i)
    /\ \E u \in df_adj.index : \E v \in df_adj.index : df_adj.val[<<u, v>>] = 0
    /\ \E u \in df_adj.index : \E v \in df_adj.index : df_adj.val[<<u, v>>] = 1

\* C10: the index of the matrix is the union of the upstream and downstream
\* ids of the sections; a declared node no section touches is outside it and
\* is in none of the three result sets.
C10_IndexIsEndpoints ==
    pc \in AfterBuild =>
        /\ df_adj.index = Endpoints
        /\ \A n \in Range(NODES) :
              n \notin Endpoints =>
                  /\ n \notin df_adj.index
                  /\ n \notin deadends \cup springs \cup isolates

\* A declared node without section, the analysis finished with results.
C10_Witness ==
    /\ pc = "done"
    /\ \E n \in Range(NODES) : n \notin Endpoints
    /\ deadends # {}
    /\ springs # {}

\* ------------------------------------------------------- duplicate sections
PairOf(i) == <<SECTIONS[i].upstream, SECTIONS[i].downstream>>

\* The ids of the sections with the endpoint pair p.
SectionsOfPair(p) == {SECTIONS[i].id : i \in {j \in 1..Len(SECTIONS) : PairOf(j) = p}}

\* The place of a section id, and the first place of a pair, in the input.
PlaceOfId(id) == CHOOSE i \in 1..Len(SECTIONS) : SECTIONS[i].id = id

FirstPlaceOfPair(p) ==
    CHOOSE i \in 1..Len(SECTIONS) :
        PairOf(i) = p /\ \A j \in 1..(i - 1) : PairOf(j) # p

\* The sections s1:(A,B), s2:(A,B), s3:(B,C).
DuplicateExample ==
    /\ Len(SECTIONS) = 3
    /\ PairOf(1) = <<"A", "B">>
    /\ PairOf(2) = <<"A", "B">>
    /\ PairOf(3) = <<"B", "C">>

\* C7: the duplicate report holds exactly the endpoint pairs with more than
\* one section, each once and with the ids of all its sections; for
\* s1:(A,B), s2:(A,B), s3:(B,C) it is the one group (A,B) -> [s1, s2].
C7_OnlyDuplicateGroups ==
    pc = "done" =>
        /\ \A i \in 1..Len(ds) :
              /\ Len(ds[i].value) > 1
              /\ Range(ds[i].value) = SectionsOfPair(ds[i].key)
              /\ Len(ds[i].value) = Cardinality(SectionsOfPair(ds[i].key))
              /\ \A j \in 1..Len(ds) : ds[j].key = ds[i].key => j = i
        /\ \A p \in NodeIds \X NodeIds :
              Cardinality(SectionsOfPair(p)) > 1 => \E i \in 1..Len(ds) : ds[i].key = p
        /\ DuplicateExample =>
              ds = << [key |-> <<"A", "B">>, value |-> <<"s1", "s2">>] >>

C7_Witness ==
    /\ pc = "done"
    /\ DuplicateExample
    /\ Len(ds) = 1
    /\ \A i \in 1..Len(ds) : "s3" \notin Range(ds[i].value)

\* g is ordered by the first place of its pairs in the input, and the ids of
\* each of its groups by their place in the input.
InInputOrder(g) ==
    /\ \A i \in 1..Len(g) : \A j \in 1..Len(g) :
          i < j => FirstPlaceOfPair(g[i].key) < FirstPlaceOfPair(g[j].key)
    /\ \A i \in 1..Len(g) : \A a \in 1..Len(g[i].value) : \A b \in 1..Len(g[i].value) :
          a < b => PlaceOfId(g[i].value[a]) < PlaceOfId(g[i].value[b])

\* C8: the groups the detector builds, and the duplicate groups reported from
\* them, come in the order in which their endpoint pairs first occur in the
\* section collection, and each group lists its section ids in input order.
C8_GroupsInInputOrder ==
    /\ pc \in {"duplicate_report", "done"} => InInputOrder(seen_pairs)
    /\ pc = "done" => InInputOrder(ds)

\* The pair seen first is not the smallest pair, and its two sections are
\* separated by a section of another pair.
C8_Witness ==
    /\ pc = "done"
    /\ Len(seen_pairs) = 2
    /\ Len(ds) = 1
    /\ PairOf(1) = <<"B", "C">>
    /\ PairOf(2) = <<"A", "B">>
    /\ PairOf(3) = <<"B", "C">>
    /\ ds[1].value = <<"s1", "s3">>

\* ------------------------------------------------------ compute_centralities
\* The inner loop over sections.items() for the node id_node: the entry of
\* id_node is created by the first section that touches the node and grows by
\* one for each end of a section that is the node.
RECURSIVE CountSections(_, _, _, _)
CountSections(c, id_node, sections, j) ==
    IF j > Len(sections) THEN c
    ELSE LET c1 == IF id_node = sections[j].upstream
                   THEN Put(c, id_node, Get(c, id_node, 0) + 1) ELSE c
             c2 == IF id_node = sections[j].downstream
                   THEN Put(c1, id_node, Get(c1, id_node, 0) + 1) ELSE c1
         IN CountSections(c2, id_node, sections, j + 1)

\* The outer loop over nodes.items().
RECURSIVE CountNodes(_, _, _, _)
CountNodes(c, nodes, sections, i) ==
    IF i > Len(nodes) THEN c
    ELSE CountNodes(CountSections(c, nodes[i], sections, 1), nodes, sections, i + 1)

\* A count that runs over the ids the sections name, not over the Node
\* collection.
compute_centralities_OverSections(nodes, sections) ==
    CountNodes(<<>>, CHOOSE q \in Orderings(all_nodes(sections)) : TRUE, sections, 1)

compute_centralities(nodes, sections) == CountNodes(<<>>, nodes, sections, 1)

\* max(centralities, key=centralities.get) over a non-empty dict: the keys are
\* visited in insertion order and a later key replaces the best one only when
\* its value is strictly greater.
RECURSIVE MaxEntry(_, _, _)
MaxEntry(d, best, i) ==
    IF i > Len(d) THEN best
    ELSE MaxEntry(d, IF d[i].value > d[best].value THEN i ELSE best, i + 1)

MaxKey(d) == d[MaxEntry(d, 1, 2)].key

\* max(centralities.values())
MaxValue(d) == d[MaxEntry(d, 1, 2)].value

\* compute_centralities applied to every network description within the
\* bounds, with the Node collection in any key order and sections that may
\* name undeclared nodes.
InitCentrality ==
    /\ NODES \in NodeInputs
    /\ SECTIONS \in SectionInputs
    /\ pc = "compute_centralities"
    /\ df_adj = EmptyFrame
    /\ df_adj_de = EmptyFrame
    /\ ls_deadEnds = {}
    /\ df_adj_sp = EmptyFrame
    /\ s_springs = {}
    /\ ls_springs = {}
    /\ deadends = {}
    /\ springs = {}
    /\ isolates = {}
    /\ seen_pairs = <<>>
    /\ ds = <<>>
    /\ centralities = <<>>
    /\ max_centrality = NoReport
    /\ executions = NoExecutions
    /\ main = NoResults
    /\ network = SECTIONS
    /\ roads = SECTIONS
    /\ final_sections = <<>>
    /\ categories = NoCategories

ComputeCentralities ==
    /\ pc = "compute_centralities"
    /\ centralities' = compute_centralities(NODES, SECTIONS)
    /\ pc' = "max_centrality"
    /\ UNCHANGED <<categories, network, roads, final_sections, main, executions, NODES, SECTIONS, df_adj, df_adj_de, ls_deadEnds, df_adj_sp,
                   s_springs, ls_springs, deadends, springs, isolates, seen_pairs,
                   ds, max_centrality>>

\* The report of the node with maximum centrality; max() of an empty dict
\* raises ValueError.
MaxCentrality ==
    /\ pc = "max_centrality"
    /\ IF centralities = <<>>
       THEN /\ pc' = "max_raised"
            /\ UNCHANGED max_centrality
       ELSE /\ max_centrality' =
                  [node |-> MaxKey(centralities), value |-> MaxValue(centralities)]
            /\ pc' = "max_done"
    /\ UNCHANGED <<categories, network, roads, final_sections, main, executions, NODES, SECTIONS, df_adj, df_adj_de, ls_deadEnds, df_adj_sp,
                   s_springs, ls_springs, deadends, springs, isolates, seen_pairs,
                   ds, centralities>>

NextCentrality ==
    \/ ComputeCentralities
    \/ MaxCentrality

SpecCentrality == InitCentrality /\ [][NextCentrality]_vars

AfterCentralities == {"max_centrality", "max_raised", "max_done"}

\* The number of sections leaving n plus the number of sections entering n.
Degree(n) ==
    Cardinality({i \in 1..Len(SECTIONS) : SECTIONS[i].upstream = n})
        + Cardinality({i \in 1..Len(SECTIONS) : SECTIONS[i].downstream = n})

\* C4: the centralities have an entry, a number >= 0, for every node of the
\* Node collection, and the entry of a node no section touches is 0.
C4_CompleteMapping ==
    pc \in AfterCentralities =>
        \A n \in Range(NODES) :
            /\ HasKey(centralities, n)
            /\ Get(centralities, n, 0) >= 0
            /\ Degree(n) = 0 => Get(centralities, n, NaN) = 0

\* The sections (A,B), (B,C), (C,B) over the declared nodes A, B, C.
CentralityExample ==
    /\ Range(NODES) = {"A", "B", "C"}
    /\ Len(SECTIONS) = 3
    /\ PairOf(1) = <<"A", "B">>
    /\ PairOf(2) = <<"B", "C">>
    /\ PairOf(3) = <<"C", "B">>

\* C5: for every node of the Node collection the centralities give the
\* number of sections leaving it plus the number of sections entering it (a
\* self-loop counts twice); for (A,B), (B,C), (C,B) they are A:1, B:3, C:2
\* and the reported maximum is B:3.
C5_DegreeOfEveryNode ==
    /\ pc \in AfterCentralities =>
          \A n \in Range(NODES) :
              HasKey(centralities, n) /\ Get(centralities, n, NaN) = Degree(n)
    /\ (pc = "max_done" /\ CentralityExample) =>
          max_centrality = [node |-> "B", value |-> 3]

\* The declared nodes of maximum degree.
MaxDegreeNodes ==
    {n \in Range(NODES) : \A m \in Range(NODES) : Degree(m) <= Degree(n)}

\* C6: the node reported with the maximum centrality is, among the nodes of
\* maximum degree, the one with the smallest id in lexicographic order.
C6_TieLexicographic ==
    pc = "max_done" =>
        /\ max_centrality.node \in MaxDegreeNodes
        /\ \A n \in MaxDegreeNodes : Rank(max_centrality.node) <= Rank(n)

\* ------------------------------------------------ cycles, chains, self-loops
\* C11: when every node of the index lies on a directed cycle, the dead-end
\* set, the spring set and the isolates are empty.
C11_CyclesLeaveNothing ==
    (pc \in AfterIsolates /\ \A n \in df_adj.index : OnCycle(n)) =>
        /\ deadends = {}
        /\ springs = {}
        /\ isolates = {}

\* The cycle through three nodes, analysed to the end.
C11_Witness ==
    /\ pc = "done"
    /\ Cardinality(df_adj.index) = 3
    /\ Cardinality(Edges) = 3
    /\ \A n \in df_adj.index : OnCycle(n) /\ <<n, n>> \notin Edges
    /\ deadends = {}
    /\ springs = {}

\* The only sections with n as an end are self-loops of n, and there is one.
OnlySelfLoop(n) ==
    /\ <<n, n>> \in Edges
    /\ \A e \in Edges : (e[1] = n \/ e[2] = n) => e = <<n, n>>

\* C13: a node whose only incident section is a self-loop is neither a
\* dead-end nor a spring.
C13_SelfLoopKeepsNode ==
    pc \in AfterSprings =>
        \A n \in df_adj.index :
            OnlySelfLoop(n) => n \notin deadends /\ n \notin springs

\* A node with only a self-loop beside two nodes that are pruned.
C13_Witness ==
    /\ pc = "done"
    /\ \E n \in df_adj.index : OnlySelfLoop(n)
    /\ deadends # {}
    /\ springs # {}

\* ------------------------------------------------------------- empty inputs
\* C14: with an empty Section collection the adjacency matrix is built with
\* an empty index and the dead-ends, springs and isolates are empty, and the
\* analysis does not end in an error.
C14_EmptySectionsNoError ==
    SECTIONS = <<>> =>
        /\ pc # "raised"
        /\ pc \in AfterBuild => df_adj.index = {}
        /\ deadends = {} /\ springs = {} /\ isolates = {}

\* Every section joins declared nodes.
StructurallyValid == Endpoints \subseteq Range(NODES)

RECURSIVE DeadendsWhile(_, _)
DeadendsWhile(df_adj_de0, ls_deadEnds0) ==
    LET df == ZeroColumns(df_adj_de0, ls_deadEnds0)
        new_deadEnds == AllZeroRows(df)
    IN IF new_deadEnds = ls_deadEnds0 THEN new_deadEnds
       ELSE DeadendsWhile(df, new_deadEnds)

identify_deadends(df) == DeadendsWhile(df, FirstDeadEnds(df))

\* identify_springs' "while True" from the state (df_adj_sp, s_springs,
\* ls_springs) on.
RECURSIVE SpringsWhile(_, _, _)
SpringsWhile(df_adj_sp0, s_springs0, ls_springs0) ==
    LET df == ZeroRows(df_adj_sp0, s_springs0)
        new_springs == AllZeroCols(df)
    IN IF new_springs = ls_springs0 THEN new_springs
       ELSE SpringsWhile(df, new_springs, new_springs)

identify_springs(df) == SpringsWhile(df, FirstSprings(df), FirstSprings(df))

\* ------------------------------------------------ every graph on the node ids
\* e comes before f in the order of the pairs of node ids.
PairBefore(e, f) ==
    \/ Rank(e[1]) < Rank(f[1])
    \/ Rank(e[1]) = Rank(f[1]) /\ Rank(e[2]) <= Rank(f[2])

RECURSIVE PairsInOrder(_)
PairsInOrder(E) ==
    IF E = {} THEN <<>>
    ELSE LET e == CHOOSE x \in E : \A y \in E : PairBefore(x, y)
         IN <<e>> \o PairsInOrder(E \ {e})

\* The section collections with one section per edge, for every set of edges
\* over the node ids: every adjacency matrix build_adjacency_matrix can build
\* over these ids comes from one of them.
GraphInputs == {MkSections(PairsInOrder(E)) : E \in SUBSET (NodeIds \X NodeIds)}

InitGraphs ==
    /\ NODES = Ascending
    /\ SECTIONS \in GraphInputs
    /\ pc = "build_adjacency_matrix"
    /\ df_adj = EmptyFrame
    /\ df_adj_de = EmptyFrame
    /\ ls_deadEnds = {}
    /\ df_adj_sp = EmptyFrame
    /\ s_springs = {}
    /\ ls_springs = {}
    /\ deadends = {}
    /\ springs = {}
    /\ isolates = {}
    /\ seen_pairs = <<>>
    /\ ds = <<>>
    /\ centralities = <<>>
    /\ max_centrality = NoReport
    /\ executions = NoExecutions
    /\ main = NoResults
    /\ network = SECTIONS
    /\ roads = SECTIONS
    /\ final_sections = <<>>
    /\ categories = NoCategories

\* analyze_roads from the construction of the matrix to the isolates.
NextPruning ==
    \/ BuildAdjacencyMatrix
    \/ IdentifyDeadends
    \/ DeadendsLoop
    \/ IdentifySprings
    \/ SpringsLoop
    \/ Isolates

SpecGraphs == InitGraphs /\ [][NextPruning]_vars

\* C17: each pruning loop ends after at most as many executions of its body
\* as the index has nodes: the count never exceeds the size of the index, and
\* while a loop is still running it is below it.
C17_LoopBound ==
    pc \in AfterBuild =>
        /\ executions.deadends <= Cardinality(df_adj.index)
        /\ executions.springs <= Cardinality(df_adj.index)
        /\ pc = "deadends_loop" => executions.deadends < Cardinality(df_adj.index)
        /\ pc = "springs_loop" => executions.springs < Cardinality(df_adj.index)

\* Both loops have needed as many executions as there are nodes.
C17_Witness ==
    /\ pc = "isolates"
    /\ Cardinality(df_adj.index) = NumNodes
    /\ executions.deadends = NumNodes
    /\ executions.springs = NumNodes

\* C18: an execution of a loop body never loses a candidate, and when the
\* loop goes on the new candidate set is strictly larger than the old one.
C18_CandidatesGrow ==
    [][/\ pc = "deadends_loop" =>
              /\ ls_deadEnds \subseteq ls_deadEnds'
              /\ pc' = "deadends_loop" => ls_deadEnds' # ls_deadEnds
       /\ pc = "springs_loop" =>
              /\ ls_springs \subseteq ls_springs'
              /\ pc' = "springs_loop" => ls_springs' # ls_springs]_vars

\* The dead-end candidates have grown in two successive rounds.
C18_Witness ==
    /\ pc = "deadends_loop"
    /\ executions.deadends = 2
    /\ Cardinality(ls_deadEnds) >= 3
    /\ Cardinality(FirstDeadEnds(df_adj)) = 1

\* df.T
Transpose(df) ==
    [index |-> df.index, val |-> [p \in DOMAIN df.val |-> df.val[<<p[2], p[1]>>]]]

\* C19: the springs of the transposed matrix are the dead-ends of the matrix
\* and the dead-ends of the transposed matrix are its springs.
C19_TransposeSymmetry ==
    pc \in AfterSprings =>
        /\ identify_springs(Transpose(df_adj)) = deadends
        /\ identify_deadends(Transpose(df_adj)) = springs

\* A matrix that is not its own transpose, with different results.
C19_Witness ==
    /\ pc = "isolates"
    /\ Transpose(df_adj) # df_adj
    /\ deadends # {}
    /\ springs # {}
    /\ deadends # springs
    /\ executions.deadends >= 2

\* The input matrix with the columns (rows) of the given labels zeroed,
\* written out cell by cell.
WithoutColumns(df, labels) ==
    [index |-> df.index,
     val |-> [p \in df.index \X df.index |-> IF p[2] \in labels THEN 0 ELSE df.val[p]]]

WithoutRows(df, labels) ==
    [index |-> df.index,
     val |-> [p \in df.index \X df.index |-> IF p[1] \in labels THEN 0 ELSE df.val[p]]]

\* C20: dead-end identification run on the surviving matrix, the input with
\* the columns of the final dead-ends zeroed, returns the same dead-ends, and
\* spring identification run on the input with the rows of the final springs
\* zeroed returns the same springs; these are the matrices the two loops
\* end with.
C20_FixedPointIdempotent ==
    pc \in AfterSprings =>
        /\ identify_deadends(WithoutColumns(df_adj, deadends)) = deadends
        /\ identify_springs(WithoutRows(df_adj, springs)) = springs
        /\ df_adj_de = WithoutColumns(df_adj, deadends)
        /\ df_adj_sp = WithoutRows(df_adj, springs)

\* Both passes have zeroed cells of their copy and have kept some node.
C20_Witness ==
    /\ pc = "isolates"
    /\ df_adj_de # df_adj
    /\ df_adj_sp # df_adj
    /\ deadends # {} /\ deadends # df_adj.index
    /\ springs # {} /\ springs # df_adj.index

\* --------------------------------------------------------------------- chains
ChainIds == {NodeNames[i] : i \in 1..MaxChain}

\* The chains: two or more distinct nodes in a row.
Chains == {c \in UNION {Orderings(S) : S \in SUBSET ChainIds} : Len(c) >= 2}

\* The sections of the chain c, one from each node to the next, listed in the
\* document order p.
ChainSections(c, p) ==
    MkSections([i \in 1..Len(p) |-> <<c[p[i]], c[p[i] + 1]>>])

ChainInputs ==
    UNION {{ChainSections(c, p) : p \in Orderings(1..(Len(c) - 1))} : c \in Chains}

InitChains ==
    /\ NODES = [i \in 1..MaxChain |-> NodeNames[i]]
    /\ SECTIONS \in ChainInputs
    /\ pc = "build_adjacency_matrix"
    /\ df_adj = EmptyFrame
    /\ df_adj_de = EmptyFrame
    /\ ls_deadEnds = {}
    /\ df_adj_sp = EmptyFrame
    /\ s_springs = {}
    /\ ls_springs = {}
    /\ deadends = {}
    /\ springs = {}
    /\ isolates = {}
    /\ seen_pairs = <<>>
    /\ ds = <<>>
    /\ centralities = <<>>
    /\ max_centrality = NoReport
    /\ executions = NoExecutions
    /\ main = NoResults
    /\ network = SECTIONS
    /\ roads = SECTIONS
    /\ final_sections = <<>>
    /\ categories = NoCategories

SpecChains == InitChains /\ [][NextPruning]_vars

\* The sections are those of a chain: no branch, no back edge, no parallel
\* section.
IsChain ==
    \E c \in Chains :
        /\ Len(SECTIONS) = Len(c) - 1
        /\ Edges = {<<c[i], c[i + 1]>> : i \in 1..(Len(c) - 1)}

\* The nodes an end of a section names.
SectionNodes ==
    {SECTIONS[i].upstream : i \in 1..Len(SECTIONS)}
        \cup {SECTIONS[i].downstream : i \in 1..Len(SECTIONS)}

\* C12: for the sections of a chain the dead-ends are all nodes of the chain,
\* the springs are all nodes of the chain, and so are the isolates.
C12_ChainAllPruned ==
    (pc \in AfterIsolates /\ IsChain) =>
        /\ deadends = SectionNodes
        /\ springs = SectionNodes
        /\ isolates = SectionNodes

\* The chain A -> B -> C -> D, pruned in four rounds from either end.
C12_Witness ==
    /\ pc = "identify_final_sections"
    /\ Edges = {<<"A", "B">>, <<"B", "C">>, <<"C", "D">>}
    /\ isolates = {"A", "B", "C", "D"}
    /\ executions.deadends = 4
    /\ executions.springs = 4

\* ------------------------------------------------------------ the whole script
\* The ids of S in ascending order.
AscendingOf(S) ==
    CHOOSE q \in Orderings(S) :
        \A i \in 1..Len(q) : \A j \in 1..Len(q) : i < j => Rank(q[i]) < Rank(q[j])

\* Network descriptions whose Node collection declares any part of the ids,
\* so that a section may name an id that is not declared.
MainNodeInputs == {AscendingOf(S) : S \in SUBSET NodeIds}

MainSectionInputs ==
    {MkSections(f) : f \in UNION {[1..n -> NodeIds \X NodeIds] : n \in 0..MaxMainSections}}

InitMain ==
    /\ NODES \in MainNodeInputs
    /\ SECTIONS \in MainSectionInputs
    /\ pc = "build_adjacency_matrix"
    /\ df_adj = EmptyFrame
    /\ df_adj_de = EmptyFrame
    /\ ls_deadEnds = {}
    /\ df_adj_sp = EmptyFrame
    /\ s_springs = {}
    /\ ls_springs = {}
    /\ deadends = {}
    /\ springs = {}
    /\ isolates = {}
    /\ seen_pairs = <<>>
    /\ ds = <<>>
    /\ centralities = <<>>
    /\ max_centrality = NoReport
    /\ executions = NoExecutions
    /\ main = NoResults
    /\ network = SECTIONS
    /\ roads = SECTIONS
    /\ final_sections = <<>>
    /\ categories = NoCategories

\* analyze_roads returns (deadends, springs, isolates); the script unpacks the
\* three values into springs, deadends, isolates, in that order.
AnalyzeRoadsReturn ==
    /\ pc = "done"
    /\ main' = [springs |-> deadends, deadends |-> springs, isolates |-> isolates]
    /\ pc' = "compute_centralities"
    /\ UNCHANGED <<categories, network, roads, final_sections, executions, NODES, SECTIONS, df_adj,
                   df_adj_de, ls_deadEnds, df_adj_sp,
                   s_springs, ls_springs, deadends, springs, isolates, seen_pairs,
                   ds, centralities, max_centrality>>

\* The category "Springs" with the isolates left in.
plot_nodes_IsolatesLeftIn(nodes, sp, de, iso) ==
    [Isolates |-> iso,
     Springs |-> sp,
     Deadends |-> de \ iso,
     Standard |-> nodes \ (sp \cup de \cup iso)]

\* plot_nodes(roads, springs, deadends, isolates): the ids of the four
\* categories; nodes is set(nodes.keys()).
plot_nodes(nodes, sp, de, iso) ==
    [Isolates |-> iso,
     Springs |-> sp \ iso,
     Deadends |-> de \ iso,
     Standard |-> nodes \ (sp \cup de \cup iso)]

\* run_dash_app(roads, layers, springs, deadends, isolates, ...) hands the
\* three names of the script to plot_nodes.
RunDashApp ==
    /\ pc = "max_done"
    /\ categories' = plot_nodes(Range(NODES), main.springs, main.deadends, main.isolates)
    /\ pc' = "run_dash_app"
    /\ UNCHANGED <<network, roads, final_sections, main, executions, NODES, SECTIONS,
                   df_adj, df_adj_de, ls_deadEnds, df_adj_sp, s_springs, ls_springs,
                   deadends, springs, isolates, seen_pairs, ds, centralities,
                   max_centrality>>

\* The script once the network passed validate_roads: analyze_roads, then
\* compute_centralities and the report of the maximum.
NextMain ==
    \/ Next
    \/ AnalyzeRoadsReturn
    \/ ComputeCentralities
    \/ MaxCentrality
    \/ RunDashApp

SpecMain == InitMain /\ [][NextMain]_vars

AfterAnalyzeRoads == {"compute_centralities"} \cup AfterCentralities

\* The ids a section names that the Node collection does not declare.
Undeclared == SectionNodes \ Range(NODES)

\* The sections that name the id n.
SectionsNaming(n) ==
    {i \in 1..Len(SECTIONS) : SECTIONS[i].upstream = n \/ SECTIONS[i].downstream = n}

\* C16: a section that names an id the Node collection does not declare is not
\* rejected: the construction of the matrix does not stop on it, the id is in
\* the index of the matrix and the section is marked in the matrix, while the
\* centralities have no entry for that id.
C16_UndeclaredNode ==
    \A n \in Undeclared :
        /\ pc # "raised"
        /\ pc \in (AfterBuild \cup AfterAnalyzeRoads) =>
              /\ n \in df_adj.index
              /\ \A i \in SectionsNaming(n) :
                    df_adj.val[<<SECTIONS[i].upstream, SECTIONS[i].downstream>>] = 1
        /\ pc \in AfterCentralities => ~HasKey(centralities, n)

\* The script ran to the report on a description where B is declared and A is
\* not, with the section A -> B: A is a dead-end, a spring and an isolate, and
\* has no centrality.
C16_Witness ==
    /\ pc = "max_done"
    /\ "A" \in Undeclared
    /\ "A" \in deadends
    /\ "A" \in springs
    /\ "A" \in isolates
    /\ HasKey(centralities, "B")
    /\ ~HasKey(centralities, "A")

\* ------------------------------------------- both orders of the two passes
\* visualize_dashboard's script: build_adjacency_matrix, identify_springs,
\* identify_deadends and the isolates, its own copies of the same functions.
DashboardBuild ==
    /\ pc = "dashboard"
    /\ IF network = <<>>
       THEN /\ pc' = "raised"
            /\ UNCHANGED df_adj
       ELSE /\ df_adj' = build_adjacency_matrix(network)
            /\ pc' = "dashboard_identify_springs"
    /\ UNCHANGED <<categories, network, roads, final_sections, main, executions, NODES, SECTIONS, df_adj_de, ls_deadEnds,
                   df_adj_sp, s_springs, ls_springs, deadends, springs, isolates,
                   seen_pairs, ds, centralities, max_centrality>>

\* springs = identify_springs(df_adj): the copy and the first candidates.
DashboardIdentifySprings ==
    /\ pc = "dashboard_identify_springs"
    /\ df_adj_sp' = df_adj
    /\ s_springs' = FirstSprings(df_adj)
    /\ ls_springs' = FirstSprings(df_adj)
    /\ pc' = "dashboard_springs_loop"
    /\ executions' = [executions EXCEPT !.springs = 0]
    /\ UNCHANGED <<categories, network, roads, final_sections, main, NODES, SECTIONS, df_adj, df_adj_de, ls_deadEnds, deadends,
                   springs, isolates, seen_pairs, ds, centralities, max_centrality>>

DashboardSpringsLoop ==
    /\ pc = "dashboard_springs_loop"
    /\ LET df == ZeroRows(df_adj_sp, s_springs)
           new_springs == AllZeroCols(df)
       IN /\ df_adj_sp' = df
          /\ s_springs' = new_springs
          /\ ls_springs' = new_springs
          /\ IF new_springs = ls_springs
             THEN /\ springs' = new_springs
                  /\ pc' = "dashboard_identify_deadends"
             ELSE /\ UNCHANGED springs
                  /\ pc' = "dashboard_springs_loop"
    /\ executions' = [executions EXCEPT !.springs = @ + 1]
    /\ UNCHANGED <<categories, network, roads, final_sections, main, NODES, SECTIONS, df_adj, df_adj_de, ls_deadEnds, deadends,
                   isolates, seen_pairs, ds, centralities, max_centrality>>

\* deadends = identify_deadends(df_adj), after the spring pass.
DashboardIdentifyDeadends ==
    /\ pc = "dashboard_identify_deadends"
    /\ df_adj_de' = df_adj
    /\ ls_deadEnds' = FirstDeadEnds(df_adj)
    /\ pc' = "dashboard_deadends_loop"
    /\ executions' = [executions EXCEPT !.deadends = 0]
    /\ UNCHANGED <<categories, network, roads, final_sections, main, NODES, SECTIONS, df_adj, df_adj_sp, s_springs, ls_springs,
                   deadends, springs, isolates, seen_pairs, ds, centralities,
                   max_centrality>>

DashboardDeadendsLoop ==
    /\ pc = "dashboard_deadends_loop"
    /\ LET df == ZeroColumns(df_adj_de, ls_deadEnds)
           new_deadEnds == AllZeroRows(df)
       IN /\ df_adj_de' = df
          /\ ls_deadEnds' = new_deadEnds
          /\ IF new_deadEnds = ls_deadEnds
             THEN /\ deadends' = new_deadEnds
                  /\ pc' = "dashboard_isolates"
             ELSE /\ UNCHANGED deadends
                  /\ pc' = "dashboard_deadends_loop"
    /\ executions' = [executions EXCEPT !.deadends = @ + 1]
    /\ UNCHANGED <<categories, network, roads, final_sections, main, NODES, SECTIONS, df_adj, df_adj_sp, s_springs, ls_springs,
                   springs, isolates, seen_pairs, ds, centralities, max_centrality>>

DashboardIsolates ==
    /\ pc = "dashboard_isolates"
    /\ isolates' = IsolatesOf(deadends, springs)
    /\ pc' = "dashboard_compute_centralities"
    /\ UNCHANGED <<categories, network, roads, final_sections, main, executions, NODES, SECTIONS, df_adj, df_adj_de, ls_deadEnds,
                   df_adj_sp, s_springs, ls_springs, deadends, springs, seen_pairs, ds,
                   centralities, max_centrality>>

\* Either script, on every graph with one section per edge.
InitOrders ==
    /\ NODES = Ascending
    /\ SECTIONS \in GraphInputs
    /\ pc \in {"build_adjacency_matrix", "dashboard"}
    /\ df_adj = EmptyFrame
    /\ df_adj_de = EmptyFrame
    /\ ls_deadEnds = {}
    /\ df_adj_sp = EmptyFrame
    /\ s_springs = {}
    /\ ls_springs = {}
    /\ deadends = {}
    /\ springs = {}
    /\ isolates = {}
    /\ seen_pairs = <<>>
    /\ ds = <<>>
    /\ centralities = <<>>
    /\ max_centrality = NoReport
    /\ executions = NoExecutions
    /\ main = NoResults
    /\ network = SECTIONS
    /\ roads = SECTIONS
    /\ final_sections = <<>>
    /\ categories = NoCategories

NextOrders ==
    \/ NextPruning
    \/ DashboardBuild
    \/ DashboardIdentifySprings
    \/ DashboardSpringsLoop
    \/ DashboardIdentifyDeadends
    \/ DashboardDeadendsLoop
    \/ DashboardIsolates

SpecOrders == InitOrders /\ [][NextOrders]_vars

DashboardAfterBuild ==
    {"dashboard_identify_springs", "dashboard_springs_loop",
     "dashboard_identify_deadends", "dashboard_deadends_loop",
     "dashboard_isolates", "dashboard_compute_centralities"}

\* The pass that runs second has made its copy and not yet changed it.
SecondPassStarts ==
    \/ pc = "springs_loop" /\ executions.springs = 0
    \/ pc = "dashboard_deadends_loop" /\ executions.deadends = 0

\* C21: in either order of the two passes the matrix handed to them stays as
\* build_adjacency_matrix made it, the pass that runs second starts from that
\* matrix, and the three sets at the end are the same in both orders: the
\* nodes that reach no cycle, the nodes no cycle reaches, and the nodes in
\* both.
C21_BothOrdersAgree ==
    /\ pc \in (AfterBuild \cup DashboardAfterBuild) =>
          df_adj = build_adjacency_matrix(SECTIONS)
    /\ SecondPassStarts =>
          /\ pc = "springs_loop" => df_adj_sp = build_adjacency_matrix(SECTIONS)
          /\ pc = "dashboard_deadends_loop" =>
                df_adj_de = build_adjacency_matrix(SECTIONS)
    /\ pc \in {"identify_final_sections", "dashboard_compute_centralities"} =>
          /\ deadends = {n \in all_nodes(SECTIONS) : ~ReachesCycle(n)}
          /\ springs = {n \in all_nodes(SECTIONS) : ~ReachedFromCycle(n)}
          /\ isolates =
                {n \in all_nodes(SECTIONS) : ~ReachesCycle(n) /\ ~ReachedFromCycle(n)}

\* The dashboard's order ran to its end on A -> B, B -> B, C -> B: the spring
\* pass changed its copy before the dead-end pass started, and the sets differ.
C21_Witness ==
    /\ pc = "dashboard_compute_centralities"
    /\ df_adj_sp # df_adj
    /\ df_adj_de = df_adj
    /\ springs = {"A", "C"}
    /\ deadends = {}
    /\ isolates = {}

\* ------------------------------------------------- the two passes interleaved
\* identify_deadends(df_adj) and identify_springs(df_adj) called on the same
\* matrix and run step by step in any order.  pc holds the position of both.
DeadendsPositions == {"identify_deadends", "deadends_loop", "returned"}

SpringsPositions == {"identify_springs", "springs_loop", "returned"}

Both(de, sp) == de \o " || " \o sp

InitInterleaved ==
    /\ NODES = Ascending
    /\ SECTIONS \in GraphInputs \ {<<>>}
    /\ pc = Both("identify_deadends", "identify_springs")
    /\ df_adj = build_adjacency_matrix(SECTIONS)
    /\ df_adj_de = EmptyFrame
    /\ ls_deadEnds = {}
    /\ df_adj_sp = EmptyFrame
    /\ s_springs = {}
    /\ ls_springs = {}
    /\ deadends = {}
    /\ springs = {}
    /\ isolates = {}
    /\ seen_pairs = <<>>
    /\ ds = <<>>
    /\ centralities = <<>>
    /\ max_centrality = NoReport
    /\ executions = NoExecutions
    /\ main = NoResults
    /\ network = SECTIONS
    /\ roads = SECTIONS
    /\ final_sections = <<>>
    /\ categories = NoCategories

InterleavedIdentifyDeadends ==
    /\ \E sp \in SpringsPositions :
          /\ pc = Both("identify_deadends", sp)
          /\ pc' = Both("deadends_loop", sp)
    /\ df_adj_de' = df_adj
    /\ ls_deadEnds' = FirstDeadEnds(df_adj)
    /\ executions' = [executions EXCEPT !.deadends = 0]
    /\ UNCHANGED <<categories, network, roads, final_sections, main, NODES, SECTIONS, df_adj, df_adj_sp, s_springs, ls_springs,
                   deadends, springs, isolates, seen_pairs, ds, centralities,
                   max_centrality>>

InterleavedDeadendsLoop ==
    /\ \E sp \in SpringsPositions :
          /\ pc = Both("deadends_loop", sp)
          /\ LET df == ZeroColumns(df_adj_de, ls_deadEnds)
                 new_deadEnds == AllZeroRows(df)
             IN /\ df_adj_de' = df
                /\ ls_deadEnds' = new_deadEnds
                /\ IF new_deadEnds = ls_deadEnds
                   THEN /\ deadends' = new_deadEnds
                        /\ pc' = Both("returned", sp)
                   ELSE /\ UNCHANGED deadends
                        /\ pc' = Both("deadends_loop", sp)
    /\ executions' = [executions EXCEPT !.deadends = @ + 1]
    /\ UNCHANGED <<categories, network, roads, final_sections, main, NODES, SECTIONS, df_adj, df_adj_sp, s_springs, ls_springs,
                   springs, isolates, seen_pairs, ds, centralities, max_centrality>>

InterleavedIdentifySprings ==
    /\ \E de \in DeadendsPositions :
          /\ pc = Both(de, "identify_springs")
          /\ pc' = Both(de, "springs_loop")
    /\ df_adj_sp' = df_adj
    /\ s_springs' = FirstSprings(df_adj)
    /\ ls_springs' = FirstSprings(df_adj)
    /\ executions' = [executions EXCEPT !.springs = 0]
    /\ UNCHANGED <<categories, network, roads, final_sections, main, NODES, SECTIONS, df_adj, df_adj_de, ls_deadEnds, deadends,
                   springs, isolates, seen_pairs, ds, centralities, max_centrality>>

InterleavedSpringsLoop ==
    /\ \E de \in DeadendsPositions :
          /\ pc = Both(de, "springs_loop")
          /\ LET df == ZeroRows(df_adj_sp, s_springs)
                 new_springs == AllZeroCols(df)
             IN /\ df_adj_sp' = df
                /\ s_springs' = new_springs
                /\ ls_springs' = new_springs
                /\ IF new_springs = ls_springs
                   THEN /\ springs' = new_springs
                        /\ pc' = Both(de, "returned")
                   ELSE /\ UNCHANGED springs
                        /\ pc' = Both(de, "springs_loop")
    /\ executions' = [executions EXCEPT !.springs = @ + 1]
    /\ UNCHANGED <<categories, network, roads, final_sections, main, NODES, SECTIONS, df_adj, df_adj_de, ls_deadEnds, deadends,
                   isolates, seen_pairs, ds, centralities, max_centrality>>

NextInterleaved ==
    \/ InterleavedIdentifyDeadends
    \/ InterleavedDeadendsLoop
    \/ InterleavedIdentifySprings
    \/ InterleavedSpringsLoop

SpecInterleaved == InitInterleaved /\ [][NextInterleaved]_vars

DeadendsReturned == \E sp \in SpringsPositions : pc = Both("returned", sp)

SpringsReturned == \E de \in DeadendsPositions : pc = Both(de, "returned")

\* C22: however the steps of the two passes are interleaved, the dead-end
\* pass returns the set it returns when it runs alone on the matrix, the nodes
\* that reach no cycle, and the spring pass returns the set it returns when it
\* runs alone, the nodes no cycle reaches.
C22_PassesIndependent ==
    /\ DeadendsReturned =>
          /\ deadends = identify_deadends(df_adj)
          /\ deadends = {n \in df_adj.index : ~ReachesCycle(n)}
    /\ SpringsReturned =>
          /\ springs = identify_springs(df_adj)
          /\ springs = {n \in df_adj.index : ~ReachedFromCycle(n)}

\* The dead-end pass returned after two executions of its loop body while
\* the spring pass is in the middle of its own loop, its copy already changed.
C22_Witness ==
    /\ pc = Both("returned", "springs_loop")
    /\ executions.deadends = 2
    /\ executions.springs = 1
    /\ df_adj_sp # df_adj
    /\ df_adj_de # df_adj
    /\ deadends # df_adj.index

\* ------------------------------------------------- queue-based sink peeling
\* The live out-degree of every node of the index: the number of sections
\* that leave it, parallel sections and self-loops counted.
OutDegrees(sections) ==
    [n \in all_nodes(sections) |->
        Cardinality({i \in 1..Len(sections) : sections[i].upstream = n})]

\* The nodes of S as a queue, in ascending order.
RECURSIVE Enqueued(_)
Enqueued(S) ==
    IF S = {} THEN <<>>
    ELSE LET n == CHOOSE x \in S : \A y \in S : Rank(x) <= Rank(y)
         IN <<n>> \o Enqueued(S \ {n})

\* The node n is confirmed: every section that enters n takes one off the
\* live out-degree of its upstream node, and a node whose live out-degree
\* drops to zero is enqueued.
RECURSIVE UpdatePredecessors(_, _, _, _)
UpdatePredecessors(sections, n, st, i) ==
    IF i > Len(sections) THEN st
    ELSE IF sections[i].downstream # n THEN UpdatePredecessors(sections, n, st, i + 1)
    ELSE LET up == sections[i].upstream
             live == st.out_degree[up] - 1
         IN UpdatePredecessors(sections, n,
                [queue |-> IF live = 0 THEN Append(st.queue, up) ELSE st.queue,
                 out_degree |-> [st.out_degree EXCEPT ![up] = live]],
                i + 1)

\* Nodes leave the queue one by one until it is empty.
RECURSIVE Peel(_, _, _)
Peel(sections, st, confirmed) ==
    IF st.queue = <<>> THEN confirmed
    ELSE LET n == Head(st.queue)
         IN Peel(sections,
                 UpdatePredecessors(sections, n,
                     [queue |-> Tail(st.queue), out_degree |-> st.out_degree], 1),
                 confirmed \cup {n})

\* The queue starts with the nodes no section leaves.
QueuePeeling(sections) ==
    Peel(sections,
         [queue |-> Enqueued({n \in all_nodes(sections) : OutDegrees(sections)[n] = 0}),
          out_degree |-> OutDegrees(sections)],
         {})

\* C23: the queue-based peeling of sinks ends with the set identify_deadends
\* returns, for every section collection, parallel sections and self-loops
\* included.
C23_QueuePeelingSame ==
    pc = "identify_springs" => deadends = QueuePeeling(SECTIONS)

\* Two parallel sections A -> B next to the self-loop C -> C: the matrix loop
\* needed two executions of its body and C stays.
C23_Witness ==
    /\ pc = "identify_springs"
    /\ Len(SECTIONS) = 3
    /\ Edges = {<<"A", "B">>, <<"C", "C">>}
    /\ executions.deadends = 2
    /\ deadends = {"A", "B"}
    /\ QueuePeeling(SECTIONS) = {"A", "B"}

\* ------------------------------------------------------------ final sections
AfterFinalSections == {"identify_duplicate_sections", "duplicate_report", "done"}

\* C28: identify_final_sections returns the ids of the sections whose
\* downstream node is a dead-end, each of them once, and no other id.
C28_FinalSectionsExact ==
    pc \in AfterFinalSections =>
        /\ Range(final_sections) =
              {SECTIONS[i].id : i \in {j \in 1..Len(SECTIONS) : SECTIONS[j].downstream \in deadends}}
        /\ Cardinality(Range(final_sections)) = Len(final_sections)

\* Two sections end in the dead-end B and a third one, the self-loop on C,
\* does not end in a dead-end.
C28_Witness ==
    /\ pc = "identify_duplicate_sections"
    /\ Len(final_sections) = 2
    /\ Len(SECTIONS) = 3
    /\ deadends = {"A", "B"}
    /\ \E i \in 1..3 : SECTIONS[i].downstream = "C" /\ SECTIONS[i].id \notin Range(final_sections)

\* ------------------------------------------------- the module-level variables
\* analyze_roads(roads) called while the module-level network (and the
\* module-level roads taken from it) holds any network description, the
\* argument's or another one.
InitGlobals ==
    /\ NODES = Ascending
    /\ SECTIONS \in MainSectionInputs
    /\ network \in MainSectionInputs
    /\ roads = network
    /\ final_sections = <<>>
    /\ categories = NoCategories
    /\ pc = "build_adjacency_matrix"
    /\ df_adj = EmptyFrame
    /\ df_adj_de = EmptyFrame
    /\ ls_deadEnds = {}
    /\ df_adj_sp = EmptyFrame
    /\ s_springs = {}
    /\ ls_springs = {}
    /\ deadends = {}
    /\ springs = {}
    /\ isolates = {}
    /\ seen_pairs = <<>>
    /\ ds = <<>>
    /\ centralities = <<>>
    /\ max_centrality = NoReport
    /\ executions = NoExecutions
    /\ main = NoResults

SpecGlobals == InitGlobals /\ [][Next]_vars

\* C24: the dead-ends, springs, isolates and final sections of
\* analyze_roads(roads) are those of the sections of its argument, whatever
\* the module-level network and roads hold.
C24_ArgumentAlone ==
    (pc \in AfterFinalSections /\ SECTIONS # <<>>) =>
        /\ deadends = identify_deadends(build_adjacency_matrix(SECTIONS))
        /\ springs = identify_springs(build_adjacency_matrix(SECTIONS))
        /\ isolates = IsolatesOf(identify_deadends(build_adjacency_matrix(SECTIONS)),
                                 identify_springs(build_adjacency_matrix(SECTIONS)))
        /\ final_sections =
              identify_final_sections(
                  IndexList(identify_deadends(build_adjacency_matrix(SECTIONS))), SECTIONS)

\* ------------------------------------------------ what the dashboard is given
AfterReturn == {"compute_centralities", "max_centrality", "max_raised", "max_done",
                "run_dash_app"}

\* C25: in the script the name deadends holds the set identify_deadends
\* computed and the name springs the set identify_springs computed, and
\* plot_nodes draws them as "Deadends" and "Springs".
C25_NamesHoldTheirSets ==
    /\ pc \in AfterReturn =>
          /\ main.deadends = deadends
          /\ main.springs = springs
    /\ pc = "run_dash_app" =>
          /\ categories.Deadends = deadends \ isolates
          /\ categories.Springs = springs \ isolates

\* C29: the four categories of plot_nodes are pairwise disjoint and every id
\* of the Node collection is in exactly one of them.
C29_CategoriesPartition ==
    (pc = "run_dash_app" /\ main.isolates = main.deadends \cap main.springs) =>
        /\ categories.Isolates \cap categories.Springs = {}
        /\ categories.Isolates \cap categories.Deadends = {}
        /\ categories.Isolates \cap categories.Standard = {}
        /\ categories.Springs \cap categories.Deadends = {}
        /\ categories.Springs \cap categories.Standard = {}
        /\ categories.Deadends \cap categories.Standard = {}
        /\ \A n \in Range(NODES) :
              Cardinality({c \in {"Isolates", "Springs", "Deadends", "Standard"} :
                              n \in categories[c]}) = 1

\* For the section A -> B with A, B and C declared: A and B are isolates,
\* so that they are springs and dead-ends too and are taken out of those two
\* categories, and C is a standard node.
C29_Witness ==
    /\ pc = "run_dash_app"
    /\ Range(NODES) = NodeIds
    /\ categories.Isolates = {"A", "B"}
    /\ categories.Standard = {"C"}
    /\ main.springs = {"A", "B"}
    /\ categories.Springs = {}

\* ------------------------------------------------------- closure of the sets
\* C26: every section that leaves a dead-end enters a dead-end, and every
\* node of the index that is not a dead-end has a section to a node that is
\* not a dead-end; every section that enters a spring leaves a spring, and
\* every node of the index that is not a spring has a section from a node
\* that is not a spring.
C26_ClosedAndSelfSustaining ==
    /\ pc \in (AfterDeadends \cup AfterReturn) =>
          /\ \A i \in 1..Len(SECTIONS) :
                SECTIONS[i].upstream \in deadends => SECTIONS[i].downstream \in deadends
          /\ \A n \in df_adj.index \ deadends :
                \E i \in 1..Len(SECTIONS) :
                    SECTIONS[i].upstream = n /\ SECTIONS[i].downstream \notin deadends
    /\ pc \in (AfterSprings \cup AfterReturn) =>
          /\ \A i \in 1..Len(SECTIONS) :
                SECTIONS[i].downstream \in springs => SECTIONS[i].upstream \in springs
          /\ \A n \in df_adj.index \ springs :
                \E i \in 1..Len(SECTIONS) :
                    SECTIONS[i].downstream = n /\ SECTIONS[i].upstream \notin springs

\* The self-loop A -> A and the section A -> B: B is the only dead-end, no
\* section leaves it, and A, which has a section to the dead-end B, stays
\* because of its section to itself; no node is a spring.
C26_Witness ==
    /\ pc = "isolates"
    /\ Edges = {<<"A", "A">>, <<"A", "B">>}
    /\ deadends = {"B"}
    /\ springs = {}

\* ------------------------------------------------- the groups as a partition
\* The number of section ids in the groups of d.
RECURSIVE GroupSizes(_, _)
GroupSizes(d, i) == IF i > Len(d) THEN 0 ELSE Len(d[i].value) + GroupSizes(d, i + 1)

\* C27: every section id is in the group of its own (upstream, downstream)
\* pair and in no other group, once, so that the sizes of the groups add up
\* to the number of sections; (A, B) and (B, A) are different groups.
C27_GroupsPartition ==
    pc \in {"duplicate_report", "done"} =>
        /\ \A i \in 1..Len(SECTIONS) :
              \A g \in 1..Len(seen_pairs) :
                  (SECTIONS[i].id \in Range(seen_pairs[g].value))
                      <=> (seen_pairs[g].key = <<SECTIONS[i].upstream, SECTIONS[i].downstream>>)
        /\ \A g \in 1..Len(seen_pairs) : \A h \in 1..Len(seen_pairs) :
              g # h => seen_pairs[g].key # seen_pairs[h].key
        /\ \A g \in 1..Len(seen_pairs) :
              Cardinality(Range(seen_pairs[g].value)) = Len(seen_pairs[g].value)
        /\ GroupSizes(seen_pairs, 1) = Len(SECTIONS)

\* s1: A -> B, s2: B -> A, s3: A -> B: the group of (A, B) has s1 and s3 and
\* the group of (B, A) has s2.
C27_Witness ==
    /\ pc = "duplicate_report"
    /\ Len(SECTIONS) = 3
    /\ Len(seen_pairs) = 2
    /\ seen_pairs[1].key = <<"A", "B">>
    /\ seen_pairs[1].value = <<"s1", "s3">>
    /\ seen_pairs[2].key = <<"B", "A">>
    /\ seen_pairs[2].value = <<"s2">>
====
